---- MODULE Spec2Model ----
(***************************************************************************)
(* Model of dup_gen.py: duplicate_pointlayer_for_duplicate_tablelayer.     *)
(*                                                                         *)
(* Strings are sequences of one-character strings, so that the f-string   *)
(* that mints a globalid is real concatenation and the key order of        *)
(* pandas' groupby is the code-point order of Python's str.               *)
(* Row positions are 1-based here (pandas' RangeIndex is 0-based).         *)
(***************************************************************************)
EXTENDS Integers, Sequences, FiniteSets, TLC

VARIABLES pc, run, src, dst, dst_before, dst_gpkg_path,
          point_gdf, table_df, updated_table, duplicates_to_process, gi,
          new_point_layer_rows, point_out, point_written, table_written,
          error, result

vars == <<pc, run, src, dst, dst_before, dst_gpkg_path,
          point_gdf, table_df, updated_table, duplicates_to_process, gi,
          new_point_layer_rows, point_out, point_written, table_written,
          error, result>>

(* ---------------------------- bounds ----------------------------------- *)
MaxPoints == 2
MaxRows == 4
MaxRuns == 2

(* ---------------------------- values ----------------------------------- *)
\* A null cell (None / NaN); no string is a one-element sequence of a word.
None == <<"None">>

P1 == <<"P", "1">>
P1_1 == <<"P", "1", "_", "1">>
P2 == <<"P", "2">>

\* The globalid values the input layers are drawn from: a plain one and one
\* that already ends in _<integer>.
GlobalIds == {P1, P1_1}

DefaultDst == "hydamo_duplicates.gpkg"
OtherDst == "HyDAMO_duplicates.gpkg"
DstPaths == {DefaultDst, OtherDst}

PointColumns == {"globalid", "geometry", "naam"}
TableColumns == {"gemaalid", "naam"}
layerid == "gemaalid"

SeqsUpTo(S, n) == UNION {[1..k -> S] : k \in 0..n}

\* A point layer: the k-th feature carries geometry k and attribute k, so
\* that a copy can be told from a copy of any other feature.
PointLayer(ids) == [k \in 1..Len(ids) |->
                      [globalid |-> ids[k], geometry |-> k, naam |-> 10 + k]]

TableLayer(fks) == [k \in 1..Len(fks) |-> [fk |-> fks[k], naam |-> 20 + k]]

\* Content a destination container holds before the call, when it exists.
StalePoints == PointLayer(<<P2>>)
StaleTable == TableLayer(<<P2>>)

(* ---------------------------- strings ---------------------------------- *)
\* Code points of the characters that occur (Python compares str by them).
Ord(c) == CASE c = "0" -> 48 [] c = "1" -> 49 [] c = "2" -> 50
            [] c = "3" -> 51 [] c = "4" -> 52 [] c = "5" -> 53
            [] c = "6" -> 54 [] c = "7" -> 55 [] c = "8" -> 56
            [] c = "9" -> 57 [] c = "P" -> 80 [] c = "_" -> 95

RECURSIVE StrLess(_, _)
StrLess(a, b) ==
    IF b = <<>> THEN FALSE
    ELSE IF a = <<>> THEN TRUE
    ELSE IF Ord(Head(a)) # Ord(Head(b)) THEN Ord(Head(a)) < Ord(Head(b))
    ELSE StrLess(Tail(a), Tail(b))

DigitChar(d) == CASE d = 0 -> "0" [] d = 1 -> "1" [] d = 2 -> "2"
                  [] d = 3 -> "3" [] d = 4 -> "4" [] d = 5 -> "5"
                  [] d = 6 -> "6" [] d = 7 -> "7" [] d = 8 -> "8"
                  [] d = 9 -> "9"

\* str(i) of a non-negative int, as the f-string formats it.
RECURSIVE IntToStr(_)
IntToStr(i) == IF i < 10 THEN <<DigitChar(i)>>
               ELSE IntToStr(i \div 10) \o <<DigitChar(i % 10)>>

\* f"{original_point_layer_id}_{i}"
new_globalid(original_point_layer_id, i) ==
    original_point_layer_id \o <<"_">> \o IntToStr(i)

(* ---------------------------- grouping --------------------------------- *)
RECURSIVE SortKeys(_)
SortKeys(S) ==
    IF S = {} THEN <<>>
    ELSE LET m == CHOOSE k \in S : \A o \in S \ {k} : StrLess(k, o)
         IN <<m>> \o SortKeys(S \ {m})

\* the lambda lists the index of the whole table instead of the group's
IndexListWholeTable(table, key, k) ==
    [i \in 1..(Len(table) - k + 1) |-> k + i - 1]

RECURSIVE IndexList(_, _, _)
IndexList(table, key, k) ==
    IF k > Len(table) THEN <<>>
    ELSE (IF table[k].fk = key THEN <<k>> ELSE <<>>)
             \o IndexList(table, key, k + 1)

\* updated_table.groupby(layerid).apply(lambda df: df.index.tolist()):
\* null keys are dropped, keys are sorted, positions keep the row order.
table_groups(table) ==
    LET keys == SortKeys({table[k].fk : k \in 1..Len(table)} \ {None})
    IN [n \in 1..Len(keys) |->
           [key |-> keys[n], indices |-> IndexList(table, keys[n], 1)]]

LongerThanOne(g) == Len(g.indices) > 1

\* {k: v for k, v in table_groups.items() if len(v) > 1}
DuplicatesToProcess(table) == SelectSeq(table_groups(table), LongerThanOne)

\* point_gdf[point_gdf["globalid"] == original_point_layer_id]
RECURSIVE Orig(_, _)
Orig(points, key) ==
    IF points = <<>> THEN <<>>
    ELSE (IF Head(points).globalid = key THEN <<Head(points)>> ELSE <<>>)
             \o Orig(Tail(points), key)

\* enumerate without start=1
MintRowsFromZero(orig_row, key, indices) ==
    [i \in 1..(Len(indices) - 1) |->
        [orig_row EXCEPT !.globalid = new_globalid(key, i - 1)]]

\* rows minted for one group: enumerate(table_indices[1:], start=1)
MintRows(orig_row, key, indices) ==
    [i \in 1..(Len(indices) - 1) |->
        [orig_row EXCEPT !.globalid = new_globalid(key, i)]]

\* updated_table.at[table_idx, layerid] = new_globalid, for one group
RewriteRows(table, key, indices) ==
    [k \in 1..Len(table) |->
        IF \E i \in 1..(Len(indices) - 1) : indices[i + 1] = k
        THEN LET i == CHOOSE i \in 1..(Len(indices) - 1) : indices[i + 1] = k
             IN [table[k] EXCEPT !.fk = new_globalid(key, i)]
        ELSE table[k]]

\* the minted rows are not concatenated
PointOutWithoutNew(points, new_rows) == points

\* the minted rows are concatenated in front
PointOutNewFirst(points, new_rows) ==
    IF new_rows # <<>> THEN new_rows \o points ELSE points

\* pd.concat([point_gdf, new_point_gdf], ignore_index=True), or point_gdf
PointOut(points, new_rows) ==
    IF new_rows # <<>> THEN points \o new_rows ELSE points

\* the report names the default path instead of the one passed in
ReportDefaultPath(path, new_rows) ==
    [output_gpkg |-> DefaultDst, duplicates_created |-> Len(new_rows)]

Report(path, new_rows) ==
    [output_gpkg |-> path, duplicates_created |-> Len(new_rows)]

NoResult == [output_gpkg |-> "", duplicates_created |-> -1]

(* ---------------------------- state ------------------------------------ *)
EmptyDst == [exists |-> FALSE, has_point |-> FALSE, point |-> <<>>,
             has_table |-> FALSE, table |-> <<>>, registered |-> FALSE]

StaleDst == [exists |-> TRUE, has_point |-> TRUE, point |-> StalePoints,
             has_table |-> TRUE, table |-> StaleTable, registered |-> TRUE]

Locals0 ==
    /\ point_gdf = <<>>
    /\ table_df = <<>>
    /\ updated_table = <<>>
    /\ duplicates_to_process = <<>>
    /\ gi = 1
    /\ new_point_layer_rows = <<>>
    /\ point_out = <<>>
    /\ point_written = FALSE
    /\ table_written = FALSE
    /\ error = "none"
    /\ result = NoResult

Init ==
    /\ pc = "read"
    /\ run = 1
    /\ \E pcols \in {PointColumns, PointColumns \ {"globalid"}},
          tcols \in {TableColumns, TableColumns \ {layerid}} :
         \E ids \in SeqsUpTo(IF "globalid" \in pcols THEN GlobalIds
                             ELSE {None}, MaxPoints),
            fks \in SeqsUpTo(IF layerid \in tcols THEN GlobalIds \cup {None}
                             ELSE {None}, MaxRows) :
            src = [point_columns |-> pcols, point |-> PointLayer(ids),
                   table_columns |-> tcols, table |-> TableLayer(fks)]
    /\ dst \in {EmptyDst, StaleDst}
    /\ dst_before = dst
    /\ dst_gpkg_path \in DstPaths
    /\ Locals0

(* ---------------------------- actions ---------------------------------- *)
io == <<run, src, dst, dst_before, dst_gpkg_path>>
loop == <<updated_table, duplicates_to_process, gi, new_point_layer_rows>>

\* gpd.read_file of both layers
ReadSource ==
    /\ pc = "read"
    /\ point_gdf' = src.point
    /\ table_df' = src.table
    /\ pc' = "validate"
    /\ UNCHANGED <<io, loop, point_out, point_written, table_written,
                   error, result>>

\* the source container cannot be read: the I/O error propagates
ReadSourceFails ==
    /\ pc = "read"
    /\ pc' = "failed"
    /\ error' = "IOError"
    /\ UNCHANGED <<io, loop, point_gdf, table_df, point_out, point_written,
                   table_written, result>>

\* if "globalid" not in point_gdf.columns: raise ValueError
RaiseNoGlobalid ==
    /\ pc = "validate"
    /\ "globalid" \notin src.point_columns
    /\ pc' = "raised"
    /\ error' = "ValueError: point layer"
    /\ UNCHANGED <<io, loop, point_gdf, table_df, point_out, point_written,
                   table_written, result>>

\* if layerid not in table_df.columns: raise ValueError
RaiseNoLayerid ==
    /\ pc = "validate"
    /\ "globalid" \in src.point_columns
    /\ layerid \notin src.table_columns
    /\ pc' = "raised"
    /\ error' = "ValueError: table layer"
    /\ UNCHANGED <<io, loop, point_gdf, table_df, point_out, point_written,
                   table_written, result>>

\* the column checks are missing
GroupRowsUnchecked ==
    /\ pc = "validate"
    /\ updated_table' = table_df
    /\ duplicates_to_process' = DuplicatesToProcess(table_df)
    /\ gi' = 1
    /\ new_point_layer_rows' = <<>>
    /\ pc' = "loop"
    /\ UNCHANGED <<io, point_gdf, table_df, point_out, point_written,
                   table_written, error, result>>

\* copy the table, group its rows by layerid, keep the groups longer than 1
GroupRows ==
    /\ pc = "validate"
    /\ "globalid" \in src.point_columns
    /\ layerid \in src.table_columns
    /\ updated_table' = table_df
    /\ duplicates_to_process' = DuplicatesToProcess(table_df)
    /\ gi' = 1
    /\ new_point_layer_rows' = <<>>
    /\ pc' = "loop"
    /\ UNCHANGED <<io, point_gdf, table_df, point_out, point_written,
                   table_written, error, result>>

\* the rows are rewritten before the missing point is noticed
SkipGroupAfterRewrite ==
    /\ pc = "loop"
    /\ gi <= Len(duplicates_to_process)
    /\ Orig(point_gdf, duplicates_to_process[gi].key) = <<>>
    /\ updated_table' = RewriteRows(updated_table,
                                    duplicates_to_process[gi].key,
                                    duplicates_to_process[gi].indices)
    /\ gi' = gi + 1
    /\ UNCHANGED <<pc, io, point_gdf, table_df, duplicates_to_process,
                   new_point_layer_rows, point_out, point_written,
                   table_written, error, result>>

\* one iteration of the outer loop whose point is missing: continue
SkipGroup ==
    /\ pc = "loop"
    /\ gi <= Len(duplicates_to_process)
    /\ Orig(point_gdf, duplicates_to_process[gi].key) = <<>>
    /\ gi' = gi + 1
    /\ UNCHANGED <<pc, io, point_gdf, table_df, updated_table,
                   duplicates_to_process, new_point_layer_rows, point_out,
                   point_written, table_written, error, result>>

\* one iteration of the outer loop, its inner loop included
ProcessGroup ==
    /\ pc = "loop"
    /\ gi <= Len(duplicates_to_process)
    /\ LET g == duplicates_to_process[gi]
           orig == Orig(point_gdf, g.key)
       IN /\ orig # <<>>
          /\ new_point_layer_rows' = new_point_layer_rows
                 \o MintRows(orig[1], g.key, g.indices)
          /\ updated_table' = RewriteRows(updated_table, g.key, g.indices)
    /\ gi' = gi + 1
    /\ UNCHANGED <<pc, io, point_gdf, table_df, duplicates_to_process,
                   point_out, point_written, table_written, error, result>>

\* build the output point layer once the loop is over
BuildOutput ==
    /\ pc = "loop"
    /\ gi > Len(duplicates_to_process)
    /\ point_out' = PointOut(point_gdf, new_point_layer_rows)
    /\ pc' = "write_point"
    /\ UNCHANGED <<io, loop, point_gdf, table_df, point_written,
                   table_written, error, result>>

\* point_out.to_file(dst, layer=pointlayer, driver="GPKG"): the layer of
\* that name is replaced, other content of an existing container stays
WritePointLayer ==
    /\ pc = "write_point"
    /\ dst' = [dst EXCEPT !.exists = TRUE, !.has_point = TRUE,
                          !.point = point_out]
    /\ point_written' = TRUE
    /\ pc' = "write_table"
    /\ UNCHANGED <<run, src, dst_before, dst_gpkg_path, loop, point_gdf,
                   table_df, point_out, table_written, error, result>>

\* the destination cannot be written
WritePointLayerFails ==
    /\ pc = "write_point"
    /\ pc' = "failed"
    /\ error' = "IOError"
    /\ UNCHANGED <<io, loop, point_gdf, table_df, point_out, point_written,
                   table_written, result>>

\* updated_table.to_sql(tablelayer, conn, if_exists="replace")
WriteTable ==
    /\ pc = "write_table"
    /\ dst' = [dst EXCEPT !.has_table = TRUE, !.table = updated_table]
    /\ table_written' = TRUE
    /\ pc' = "register"
    /\ UNCHANGED <<run, src, dst_before, dst_gpkg_path, loop, point_gdf,
                   table_df, point_out, point_written, error, result>>

\* a failed table write restores the container as it was
WriteTableFailsRollback ==
    /\ pc = "write_table"
    /\ pc' = "failed"
    /\ error' = "IOError"
    /\ dst' = dst_before
    /\ UNCHANGED <<run, src, dst_before, dst_gpkg_path, loop, point_gdf,
                   table_df, point_out, point_written, table_written, result>>

\* sqlite3.connect or to_sql raises after the point layer was written
WriteTableFails ==
    /\ pc = "write_table"
    /\ pc' = "failed"
    /\ error' = "IOError"
    /\ UNCHANGED <<io, loop, point_gdf, table_df, point_out, point_written,
                   table_written, result>>

\* INSERT OR REPLACE INTO gpkg_contents ... 'attributes'; commit; close
RegisterContents ==
    /\ pc = "register"
    /\ dst' = [dst EXCEPT !.registered = TRUE]
    /\ pc' = "return"
    /\ UNCHANGED <<run, src, dst_before, dst_gpkg_path, loop, point_gdf,
                   table_df, point_out, point_written, table_written,
                   error, result>>

\* the INSERT raises; finally closes the connection
RegisterContentsFails ==
    /\ pc = "register"
    /\ pc' = "failed"
    /\ error' = "IOError"
    /\ UNCHANGED <<io, loop, point_gdf, table_df, point_out, point_written,
                   table_written, result>>

\* return {"output_gpkg": ..., "duplicates_created": ...}
Return ==
    /\ pc = "return"
    /\ result' = Report(dst_gpkg_path, new_point_layer_rows)
    /\ pc' = "done"
    /\ UNCHANGED <<io, loop, point_gdf, table_df, point_out, point_written,
                   table_written, error>>

\* the caller runs the resolver again on the container it just produced
Rerun ==
    /\ pc = "done"
    /\ run < MaxRuns
    /\ run' = run + 1
    /\ src' = [point_columns |-> PointColumns, point |-> dst.point,
               table_columns |-> TableColumns, table |-> dst.table]
    /\ dst_before' = dst
    /\ pc' = "read"
    /\ point_gdf' = <<>>
    /\ table_df' = <<>>
    /\ updated_table' = <<>>
    /\ duplicates_to_process' = <<>>
    /\ gi' = 1
    /\ new_point_layer_rows' = <<>>
    /\ point_out' = <<>>
    /\ point_written' = FALSE
    /\ table_written' = FALSE
    /\ error' = "none"
    /\ result' = NoResult
    /\ UNCHANGED <<dst, dst_gpkg_path>>

Next ==
    \/ ReadSource
    \/ ReadSourceFails
    \/ RaiseNoGlobalid
    \/ RaiseNoLayerid
    \/ GroupRows
    \/ SkipGroup
    \/ ProcessGroup
    \/ BuildOutput
    \/ WritePointLayer
    \/ WritePointLayerFails
    \/ WriteTable
    \/ WriteTableFails
    \/ RegisterContents
    \/ RegisterContentsFails
    \/ Return
    \/ Rerun

Spec == Init /\ [][Next]_vars

(* ---------------------------- vocabulary of the claims ----------------- *)
\* <original>_<k>, written out for a one-digit k
Suffixed(original, k) == original \o <<"_", DigitChar(k)>>

HasPoint(points, key) == \E j \in 1..Len(points) : points[j].globalid = key

RowsOf(table, key) == {k \in 1..Len(table) : table[k].fk = key}

\* position of row k among the rows of its group, 0 for the first
RankOf(table, k) ==
    Cardinality({j \in 1..(k - 1) : table[j].fk = table[k].fk})

\* keys of the groups of two or more rows
MultiKeys(table) ==
    {key \in {table[k].fk : k \in 1..Len(table)} \ {None} :
        Cardinality(RowsOf(table, key)) >= 2}

MatchedKeys(points, table) ==
    {key \in MultiKeys(table) : HasPoint(points, key)}

DanglingKeys(points, table) ==
    {key \in MultiKeys(table) : ~HasPoint(points, key)}

\* rows that have an earlier row of the same group, the group being matched
LaterRows(points, table) ==
    {k \in 1..Len(table) : /\ table[k].fk \in MatchedKeys(points, table)
                           /\ RankOf(table, k) >= 1}

\* positions of the output point layer past the input features
MintedAt == (Len(src.point) + 1)..Len(dst.point)

Distinct(points) ==
    \A i, j \in 1..Len(points) :
        i # j => points[i].globalid # points[j].globalid

Finished == pc = "done"

(* ---------------------------- claims ----------------------------------- *)
\* C1: for every group of N >= 2 rows whose foreign key is the globalid of
\* a point, the output has exactly N-1 new features with the globalids
\* <original>_1 .. <original>_(N-1), the first row of the group still
\* references <original>, and the k-th later row references <original>_k.
C1_GroupDuplicated ==
    Finished =>
      \A key \in MatchedKeys(src.point, src.table) :
        LET n == Cardinality(RowsOf(src.table, key))
        IN /\ Cardinality({j \in MintedAt :
                 \E k \in 1..9 : dst.point[j].globalid = Suffixed(key, k)})
                = n - 1
           /\ \A k \in 1..(n - 1) :
                 \E j \in MintedAt : dst.point[j].globalid = Suffixed(key, k)
           /\ \A r \in RowsOf(src.table, key) :
                 dst.table[r].fk =
                    IF RankOf(src.table, r) = 0 THEN key
                    ELSE Suffixed(key, RankOf(src.table, r))

C1_Witness ==
    /\ Finished
    /\ \E key \in MatchedKeys(src.point, src.table) :
          Cardinality(RowsOf(src.table, key)) = 3

C3_FreshIdentifiers ==
    (Finished /\ Distinct(src.point)) => Distinct(dst.point)

\* C4: when no two rows of the input table share a foreign-key value, the
\* output point layer is the input point layer, the output table is the
\* input table and the reported count is 0.
C4_NoDuplicatesNoOp ==
    (Finished /\ \A i, j \in 1..Len(src.table) :
                    i # j => src.table[i].fk # src.table[j].fk)
      => /\ dst.point = src.point
         /\ dst.table = src.table
         /\ result.duplicates_created = 0

C4_Witness ==
    /\ Finished
    /\ Len(src.table) >= 2
    /\ Len(src.point) >= 1
    /\ \A i, j \in 1..Len(src.table) :
          i # j => src.table[i].fk # src.table[j].fk
    /\ \E r \in 1..Len(src.table) : HasPoint(src.point, src.table[r].fk)

\* C5: a group of two or more rows whose foreign key is no point's globalid
\* raises no error, mints no feature and keeps the foreign key of each of
\* its rows, while the other groups are processed as usual.
C5_DanglingSkipped ==
    (DanglingKeys(src.point, src.table) # {}
        /\ pc \in {"loop", "write_point", "write_table", "register",
                   "return", "done"})
      => /\ error = "none"
         /\ \A key \in DanglingKeys(src.point, src.table) :
               /\ \A r \in RowsOf(src.table, key) : updated_table[r].fk = key
               /\ \A j \in 1..Len(new_point_layer_rows), k \in 1..9 :
                     new_point_layer_rows[j].globalid # Suffixed(key, k)
         /\ Finished =>
               /\ \A r \in LaterRows(src.point, src.table) :
                     dst.table[r].fk =
                        Suffixed(src.table[r].fk, RankOf(src.table, r))
               /\ Len(dst.point) - Len(src.point)
                     = Cardinality(LaterRows(src.point, src.table))
               /\ \A r \in 1..Len(src.table) :
                     r \notin LaterRows(src.point, src.table)
                        => dst.table[r] = src.table[r]

C5_Witness ==
    /\ Finished
    /\ DanglingKeys(src.point, src.table) # {}
    /\ MatchedKeys(src.point, src.table) # {}

\* C6: a run on the output of a previous run mints no feature, reports 0
\* duplicates and rewrites no foreign key.
C6_RerunNoOp ==
    (Finished /\ run >= 2)
      => /\ new_point_layer_rows = <<>>
         /\ result.duplicates_created = 0
         /\ dst.point = src.point
         /\ dst.table = src.table

\* C7: duplicates_created is the number of features minted, which is the
\* output point count minus the input point count and the sum of
\* (group size - 1) over the matched groups; output_gpkg is the
\* destination path passed in.
C7_Report ==
    Finished =>
      /\ result.duplicates_created = Len(new_point_layer_rows)
      /\ result.duplicates_created = Len(dst.point) - Len(src.point)
      /\ result.duplicates_created
            = Cardinality(LaterRows(src.point, src.table))
      /\ (MatchedKeys(src.point, src.table) = {}
            => result.duplicates_created = 0)
      /\ result.output_gpkg = dst_gpkg_path

C7_Witness ==
    /\ Finished
    /\ result.duplicates_created >= 2
    /\ Cardinality(MatchedKeys(src.point, src.table)) = 2
    /\ dst_gpkg_path # DefaultDst

\* C8: when the point layer has no globalid column or the table layer has
\* no foreign-key column, the call ends in the validation error and the
\* destination is never written.
C8_ValidationBeforeWrite ==
    ("globalid" \notin src.point_columns \/ layerid \notin src.table_columns
        \/ pc = "raised")
      => /\ pc \in {"read", "validate", "raised", "failed"}
         /\ pc = "failed" => point_gdf = <<>> /\ table_df = <<>>
         /\ ~point_written
         /\ ~table_written
         /\ dst = dst_before
         /\ result = NoResult

C8_Witness ==
    /\ pc = "raised"
    /\ dst_before = StaleDst
    /\ Len(src.table) >= 2

\* C9: the output point layer is the input features, unchanged and in
\* order, followed by the minted features; each minted feature has the
\* geometry and attributes of the feature whose globalid was the foreign
\* key of its group.
C9_PointLayerLayout ==
    Finished =>
      /\ dst.has_point
      /\ Len(dst.point) >= Len(src.point)
      /\ SubSeq(dst.point, 1, Len(src.point)) = src.point
      /\ \A j \in MintedAt :
            \E key \in MatchedKeys(src.point, src.table), k \in 1..9 :
               LET first == CHOOSE i \in 1..Len(src.point) :
                               /\ src.point[i].globalid = key
                               /\ \A h \in 1..(i - 1) :
                                     src.point[h].globalid # key
               IN /\ dst.point[j].globalid = Suffixed(key, k)
                  /\ dst.point[j].geometry = src.point[first].geometry
                  /\ dst.point[j].naam = src.point[first].naam

C9_Witness ==
    /\ Finished
    /\ Len(src.point) >= 2
    /\ Len(dst.point) >= Len(src.point) + 2
    /\ dst.point[Len(dst.point)].geometry = 2

\* C10: the point layer is written before the table; a failure between the
\* two writes leaves the new point layer in the destination with the table
\* stale or absent; the report exists only once both writes and the
\* registration are done.
C10_TwoStepWrite ==
    /\ table_written => point_written
    /\ (pc = "failed" /\ point_written /\ ~table_written)
         => /\ dst.exists /\ dst.has_point /\ dst.point = point_out
            /\ dst.has_table
                  => dst_before.has_table /\ dst.table = dst_before.table
            /\ dst.registered => dst_before.registered
    /\ result # NoResult
         => /\ pc = "done"
            /\ point_written /\ table_written /\ dst.registered
            /\ dst.point = point_out /\ dst.table = updated_table

C10_Witness ==
    /\ pc = "failed"
    /\ point_written
    /\ ~table_written
    /\ new_point_layer_rows # <<>>
    /\ dst_before = StaleDst

====
